---- MODULE Spec2Model ----
(***************************************************************************)
(* Model of crates/bili_sync/src/utils/status.rs: Status<N>, a u32 that    *)
(* packs N three-bit subtask states (from bit 0 upward) and a completed    *)
(* mark in bit 31.                                                         *)
(***************************************************************************)
EXTENDS Integers, Naturals, Sequences, FiniteSets, TLC

\* ------------------------------------------------------------------------
\* u32 values.  A u32 is modelled by the set of the positions of its one
\* bits, a subset of 0..31 (bit 0 is the least significant).
\* ------------------------------------------------------------------------
BITS == 32

\* the u32 of a literal n < 2^31
U(n) == {b \in 0..(BITS - 2) : (n \div 2^b) % 2 = 1}

\* the number a u32 below 2^31 stands for
RECURSIVE Val(_)
Val(a) ==
    IF a = {} THEN 0
    ELSE LET b == CHOOSE x \in a : TRUE IN 2^b + Val(a \ {b})

\* a & b
BitAnd(a, b) == a \cap b

\* a | b
BitOr(a, b) == a \cup b

\* !a
BitNot(a) == (0..(BITS - 1)) \ a

\* a << n, n < 32: bits shifted past bit 31 are dropped
Shl(a, n) == {b + n : b \in {x \in a : x + n < BITS}}

\* a >> n
Shr(a, n) == {b - n : b \in {x \in a : x >= n}}

\* a < b on u32: at the highest bit where they differ, b has the one
Lt(a, b) ==
    \E i \in b \ a : {j \in a : j > i} = {j \in b : j > i}

\* a + b on u32 (ripple carry from bit i with carry c); a carry out of
\* bit 31 is dropped
RECURSIVE AddFrom(_, _, _, _)
AddFrom(a, b, i, c) ==
    IF i = BITS THEN {}
    ELSE IF c = 0 /\ \A x \in b : x < i THEN {x \in a : x >= i}
    ELSE LET t == (IF i \in a THEN 1 ELSE 0) + (IF i \in b THEN 1 ELSE 0) + c
         IN (IF t % 2 = 1 THEN {i} ELSE {}) \cup AddFrom(a, b, i + 1, t \div 2)

Add(a, b) == AddFrom(a, b, 0, 0)

\* the literals 1 and 0b111 of the source
ONE == U(1)
MASK3 == U(7)
ZERO == U(0)

\* ------------------------------------------------------------------------
\* Program constants
\* ------------------------------------------------------------------------
STATUS_MAX_RETRY == U(4)
STATUS_OK == U(7)
STATUS_COMPLETED == Shl(ONE, 31)

\* Number of subtasks of the instantiation under study (Status::<3>).
N == 3

\* ------------------------------------------------------------------------
\* Bounds of the exploration
\* ------------------------------------------------------------------------
\* update_status calls followed after one construction
MaxUpdates == 5

\* ------------------------------------------------------------------------
\* Status<N> methods, as functions of the wrapped word w (self.0)
\* ------------------------------------------------------------------------
Ok == "Ok"
Err == "Err"

get_completed(w) == Shr(w, 31) = ONE

\* a set_completed that uses bit 30 instead of bit 31
set_completed_bit30(w, completed) ==
    IF completed THEN BitOr(w, Shl(ONE, 30))
    ELSE BitAnd(w, BitNot(Shl(ONE, 30)))

set_completed(w, completed) ==
    IF completed THEN BitOr(w, Shl(ONE, 31))
    ELSE BitAnd(w, BitNot(Shl(ONE, 31)))

get_status(w, offset) == BitAnd(Shr(w, offset * 3), MASK3)

\* a set_status that shifts the value by offset instead of offset * 3
set_status_shift1(w, offset, st) ==
    BitOr(BitAnd(w, BitNot(Shl(MASK3, offset * 3))), Shl(st, offset))

set_status(w, offset, st) ==
    BitOr(BitAnd(w, BitNot(Shl(MASK3, offset * 3))), Shl(st, offset * 3))

\* a plus_one that adds 1 << offset instead of 1 << (3 * offset)
plus_one_shift1(w, offset) == Add(w, Shl(ONE, offset))

\* self.0 += 1 << (3 * offset).  set_result calls it only for a slot below
\* STATUS_MAX_RETRY, whose bit 3 * offset + 2 is zero, so the sum stays inside
\* the slot and the u32 addition cannot overflow.
plus_one(w, offset) == Add(w, Shl(ONE, 3 * offset))

\* a set_ok that adds STATUS_OK to the slot instead of ORing it in
set_ok_add(w, offset) == Add(w, Shl(STATUS_OK, 3 * offset))

set_ok(w, offset) == BitOr(w, Shl(STATUS_OK, 3 * offset))

\* a check_continue that compares with <= instead of <
check_continue_le(w, offset) ==
    get_status(w, offset) = STATUS_MAX_RETRY \/ Lt(get_status(w, offset), STATUS_MAX_RETRY)

check_continue(w, offset) == Lt(get_status(w, offset), STATUS_MAX_RETRY)

\* [bool; N]; element i of the array is at index i + 1 of the sequence
should_run(w) == [k \in 1..N |-> check_continue(w, k - 1)]

\* a set_result without the check against STATUS_MAX_RETRY
set_result_unguarded(w, r, offset) ==
    IF r = Ok THEN set_ok(w, offset) ELSE plus_one(w, offset)

\* a set_result that stops only at STATUS_MAX_RETRY itself
set_result_only_max(w, r, offset) ==
    IF get_status(w, offset) # STATUS_MAX_RETRY
    THEN IF r = Ok THEN set_ok(w, offset) ELSE plus_one(w, offset)
    ELSE w

\* a set_result in which a success is recorded whatever the slot holds
set_result_late_ok(w, r, offset) ==
    IF r = Ok THEN set_ok(w, offset)
    ELSE IF Lt(get_status(w, offset), STATUS_MAX_RETRY) THEN plus_one(w, offset)
    ELSE w

set_result(w, r, offset) ==
    IF Lt(get_status(w, offset), STATUS_MAX_RETRY)
    THEN IF r = Ok THEN set_ok(w, offset) ELSE plus_one(w, offset)
    ELSE w

\* for (i, res) in result.iter().enumerate() { self.set_result(res, i) }
\* self.0 after the first n iterations of the loop
RECURSIVE update_loop(_, _, _)
update_loop(w, res, n) ==
    IF n = 0 THEN w
    ELSE set_result(update_loop(w, res, n - 1), res[n], n - 1)

\* an update_status that marks completion when any subtask is finished
update_status_any(w, res) ==
    LET u == update_loop(w, res, Len(res))
    IN IF \E k \in 1..N : ~should_run(u)[k] THEN set_completed(u, TRUE) ELSE u

\* an update_status that writes the mark both ways after the loop
update_status_recompute(w, res) ==
    LET u == update_loop(w, res, Len(res))
    IN set_completed(u, \A k \in 1..N : ~should_run(u)[k])

\* body of update_status after the length assertion
update_status(w, res) ==
    LET u == update_loop(w, res, Len(res))
    IN IF \A k \in 1..N : ~should_run(u)[k] THEN set_completed(u, TRUE) ELSE u

\* an update_status whose length check comes after the loop
update_status_call_late_assert(w, res) ==
    IF Len(res) = N THEN [pc |-> "ready", w |-> update_status(w, res)]
    ELSE [pc |-> "panicked", w |-> update_loop(w, res, Len(res))]

\* update_status, the assertion included: where control is after the call
\* and what self.0 holds
update_status_call(w, res) ==
    IF Len(res) = N THEN [pc |-> "ready", w |-> update_status(w, res)]
    ELSE [pc |-> "panicked", w |-> w]

\* a conversion from u32 that keeps only the slots and the completed mark
from_raw_masked(r) == {b \in r : b < 3 * N \/ b = BITS - 1}

\* From<u32> for Status<N>
from_raw(r) == r

\* From<Status<N>> for u32
to_raw(w) == w

\* From<Status<N>> for [u32; N]
to_slots(w) == [k \in 1..N |-> get_status(w, k - 1)]

\* for (i, item) in status.iter().enumerate() { result.set_status(i, *item) }
\* result.0 after the first n iterations of the loop
RECURSIVE from_slots_loop(_, _, _)
from_slots_loop(w, arr, n) ==
    IF n = 0 THEN w
    ELSE set_status(from_slots_loop(w, arr, n - 1), n - 1, arr[n])

\* From<[u32; N]> for Status<N>
from_slots(arr) ==
    LET r == from_slots_loop(ZERO, arr, Len(arr))
    IN IF \A k \in 1..N : ~should_run(r)[k] THEN set_completed(r, TRUE) ELSE r

\* ------------------------------------------------------------------------
\* Inputs
\* ------------------------------------------------------------------------
\* the word whose N slots hold the three-bit patterns arr[1..N], all other
\* bits zero
Pack(arr) == UNION {{3 * (k - 1) + b : b \in arr[k]} : k \in 1..N}

\* the three-bit patterns 0..7
Slot3 == SUBSET {0, 1, 2}

\* Bits [3N, 31) of a raw word: the lowest and the highest of them
UnusedBits == {3 * N, BITS - 2}

\* raw words: every combination of slot values 0..7 with and without the
\* completed mark; and, with unused bits set, the words whose slots hold
\* values out of {0, 3, 4, 7}
RawInputs ==
    {Pack(arr) \cup f : arr \in [1..N -> Slot3], f \in {{}, STATUS_COMPLETED}}
    \cup {Pack(arr) \cup UnusedBits \cup f :
            arr \in [1..N -> {U(0), U(3), U(4), U(7)}], f \in {{}, STATUS_COMPLETED}}

\* array entries of more than three bits: 9 = 0b1001, and the value whose
\* shift by 3(N-1) reaches bit 31
WideInputs == {U(9), U(2^(BITS - 1 - 3 * (N - 1)))}

\* arrays: every array of valid values 0..7; and the arrays with one wide
\* entry beside values out of {0, 4, 7}
ArrayInputs ==
    [1..N -> Slot3]
    \cup {[arr EXCEPT ![k] = x] :
            arr \in [1..N -> {U(0), U(4), U(7)}], k \in 1..N, x \in WideInputs}

\* result slices of length N
ResultInputs == [1..N -> {Ok, Err}]

\* result slices one shorter and one longer than N
BadResultInputs == {[k \in 1..n |-> r] : n \in {N - 1, N + 1}, r \in {Ok, Err}}

\* ------------------------------------------------------------------------
\* State
\* ------------------------------------------------------------------------
VARIABLES
    status,     \* self.0 of the Status<N> under study
    pc,         \* "new" before the conversion that builds the value,
                \* "ready" after it, "panicked" after a failed assertion
    origin,     \* how the value is built: "default", "raw", "slots"
    input,      \* the argument of the conversion (<<>> for default)
    start,      \* self.0 right after construction
    nupdates,   \* update_status calls completed since construction
    allErr,     \* allErr[k]: every completed call reported Err for slot k-1
    okSet,      \* okSet[k]: some call ran set_ok on slot k-1
    errAfterOk, \* a later call reported Err for a slot on which set_ok had run
    stored,     \* the u32 the store holds for the job (two-writer scenario)
    wpc,        \* wpc[x]: writer x is "idle", "loaded", "updated" or "done"
    loaded,     \* loaded[x]: the u32 writer x read from the store
    local,      \* local[x]: self.0 of writer x's own Status<N>
    wres        \* wres[x]: the results writer x passed to update_status

wvars == <<stored, wpc, loaded, local, wres>>

vars == <<status, pc, origin, input, start, nupdates, allErr, okSet, errAfterOk,
          stored, wpc, loaded, local, wres>>

\* the two writers of the scenario
Writers == {"a", "b"}

\* no writer is at work
WritersOff ==
    /\ stored = ZERO
    /\ wpc = [x \in Writers |-> "off"]
    /\ loaded = [x \in Writers |-> ZERO]
    /\ local = [x \in Writers |-> ZERO]
    /\ wres = [x \in Writers |-> <<>>]

\* The caller holds an argument and has not built the Status yet.
Init ==
    /\ status = ZERO
    /\ pc = "new"
    /\ \/ origin = "default" /\ input = <<>>
       \/ origin = "raw" /\ input \in RawInputs
       \/ origin = "slots" /\ input \in ArrayInputs
    /\ start = ZERO
    /\ nupdates = 0
    /\ allErr = [k \in 1..N |-> TRUE]
    /\ okSet = [k \in 1..N |-> FALSE]
    /\ errAfterOk = FALSE
    /\ WritersOff

Built(w) ==
    /\ status' = w
    /\ start' = w
    /\ pc' = "ready"
    /\ UNCHANGED <<origin, input, nupdates, allErr, okSet, errAfterOk>>
    /\ UNCHANGED wvars

\* Status::<N>::default()
Default ==
    /\ pc = "new"
    /\ origin = "default"
    /\ Built(ZERO)

\* Status::<N>::from(u32)
FromRaw ==
    /\ pc = "new"
    /\ origin = "raw"
    /\ Built(from_raw(input))

\* Status::<N>::from([u32; N])
FromSlots ==
    /\ pc = "new"
    /\ origin = "slots"
    /\ Built(from_slots(input))

\* update_status with a result slice of length N
UpdateStatus ==
    /\ pc = "ready"
    /\ nupdates < MaxUpdates
    /\ \E res \in ResultInputs \cup BadResultInputs :
        /\ Len(res) = N
        /\ status' = update_status_call(status, res).w
        /\ allErr' = [k \in 1..N |-> allErr[k] /\ res[k] = Err]
        /\ okSet' = [k \in 1..N |->
                        \/ okSet[k]
                        \/ /\ res[k] = Ok
                           /\ check_continue(update_loop(status, res, k - 1), k - 1)]
        /\ errAfterOk' = (errAfterOk \/ \E k \in 1..N : okSet[k] /\ res[k] = Err)
    /\ nupdates' = nupdates + 1
    /\ UNCHANGED <<pc, origin, input, start>>
    /\ UNCHANGED wvars

\* update_status with a result slice of another length: the assertion fails
UpdateStatusPanic ==
    /\ pc = "ready"
    /\ \E res \in ResultInputs \cup BadResultInputs :
        /\ Len(res) # N
        /\ pc' = update_status_call(status, res).pc
        /\ status' = update_status_call(status, res).w
    /\ UNCHANGED <<origin, input, start, nupdates, allErr, okSet, errAfterOk>>
    /\ UNCHANGED wvars

Next ==
    \/ Default
    \/ FromRaw
    \/ FromSlots
    \/ UpdateStatus
    \/ UpdateStatusPanic

Spec == Init /\ [][Next]_vars

\* ------------------------------------------------------------------------
\* Two writers of one job: each reads the stored u32 into its own Status<N>,
\* calls update_status on it and writes the u32 back; the store keeps the
\* last write.
\* ------------------------------------------------------------------------
\* stored words: every combination of the slot values 0, 3, 4 and 7
StoredInputs == {Pack(arr) : arr \in [1..N -> {U(0), U(3), U(4), U(7)}]}

svars == <<status, pc, origin, input, start, nupdates, allErr, okSet, errAfterOk>>

InitWriters ==
    /\ status = ZERO
    /\ pc = "off"
    /\ origin = "default"
    /\ input = <<>>
    /\ start = ZERO
    /\ nupdates = 0
    /\ allErr = [k \in 1..N |-> TRUE]
    /\ okSet = [k \in 1..N |-> FALSE]
    /\ errAfterOk = FALSE
    /\ stored \in StoredInputs
    /\ wpc = [x \in Writers |-> "idle"]
    /\ loaded = [x \in Writers |-> ZERO]
    /\ local = [x \in Writers |-> ZERO]
    /\ wres = [x \in Writers |-> <<>>]

\* writer x reads the stored u32 and converts it
Load(x) ==
    /\ wpc[x] = "idle"
    /\ loaded' = [loaded EXCEPT ![x] = stored]
    /\ local' = [local EXCEPT ![x] = from_raw(stored)]
    /\ wpc' = [wpc EXCEPT ![x] = "loaded"]
    /\ UNCHANGED <<stored, wres>>
    /\ UNCHANGED svars

\* writer x reports the results of its subtasks to its own copy
UpdateCopy(x) ==
    /\ wpc[x] = "loaded"
    /\ \E res \in ResultInputs :
        /\ local' = [local EXCEPT ![x] = update_status_call(local[x], res).w]
        /\ wres' = [wres EXCEPT ![x] = res]
    /\ wpc' = [wpc EXCEPT ![x] = "updated"]
    /\ UNCHANGED <<stored, loaded>>
    /\ UNCHANGED svars

\* writer x converts its copy to u32 and writes it to the store
Store(x) ==
    /\ wpc[x] = "updated"
    /\ stored' = to_raw(local[x])
    /\ wpc' = [wpc EXCEPT ![x] = "done"]
    /\ UNCHANGED <<loaded, local, wres>>
    /\ UNCHANGED svars

NextWriters ==
    \/ \E x \in Writers : Load(x)
    \/ \E x \in Writers : UpdateCopy(x)
    \/ \E x \in Writers : Store(x)

SpecWriters == InitWriters /\ [][NextWriters]_vars

\* ------------------------------------------------------------------------
\* Observations used by the properties
\* ------------------------------------------------------------------------
\* the number held in bits [3i, 3i+3) of w
SlotValue(w, i) ==
    (IF 3 * i \in w THEN 1 ELSE 0) + (IF 3 * i + 1 \in w THEN 2 ELSE 0)
        + (IF 3 * i + 2 \in w THEN 4 ELSE 0)

\* bit 31 of w
Flag(w) == (BITS - 1) \in w

AllTerminal(w) == \A i \in 0..(N - 1) : SlotValue(w, i) >= 4

Min(a, b) == IF a < b THEN a ELSE b

\* every entry of the array is in [0, 7]
InRange(arr) == \A k \in 1..N : arr[k] \in Slot3

\* the step is a completed update_status call
UpdateStep == pc = "ready" /\ pc' = "ready" /\ nupdates' = nupdates + 1

\* ------------------------------------------------------------------------
\* Properties
\* ------------------------------------------------------------------------

\* C1: a slot that starts at 0 and for which each of the nupdates calls of
\* update_status reported a failure holds min(nupdates, 4); should_run is
\* true for it after fewer than 4 failures and false from the 4th on.
C1_RetryBound ==
    pc # "new" =>
        \A k \in 1..N :
            (SlotValue(start, k - 1) = 0 /\ allErr[k]) =>
                /\ SlotValue(status, k - 1) = Min(nupdates, 4)
                /\ should_run(status)[k] <=> (nupdates < 4)

\* a slot took five failures from 0 and holds 4, while another slot was
\* reported a success
C1_Witness ==
    \E k, j \in 1..N :
        /\ SlotValue(start, k - 1) = 0 /\ allErr[k] /\ nupdates >= 5
        /\ SlotValue(status, k - 1) = 4 /\ ~should_run(status)[k]
        /\ ~allErr[j]

\* C2: a slot on which some update_status call ran set_ok holds 7 after
\* that call and after every later call, whatever they report for it.
C2_SuccessAbsorbing ==
    \A k \in 1..N : okSet[k] => SlotValue(status, k - 1) = 7

\* the one slot set to 7 by a success was later reported a failure
C2_Witness ==
    \E k \in 1..N :
        /\ okSet[k] /\ \A j \in 1..N \ {k} : ~okSet[j]
        /\ errAfterOk /\ SlotValue(status, k - 1) = 7

\* C3: an update_status call leaves every slot that held a value >= 4
\* before the call unchanged, and no false entry of should_run becomes true.
C3_TerminalFrozen ==
    [][UpdateStep =>
        \A i \in 0..(N - 1) :
            /\ SlotValue(status, i) >= 4 =>
                   SlotValue(status', i) = SlotValue(status, i)
            /\ ~should_run(status)[i + 1] => ~should_run(status')[i + 1]]_vars

\* a slot abandoned at 4 by failures was later reported a success and
\* still holds 4
C3_Witness ==
    \E k \in 1..N :
        /\ SlotValue(start, k - 1) < 4 /\ SlotValue(status, k - 1) = 4
        /\ ~allErr[k] /\ ~okSet[k] /\ pc = "ready"

\* the value was built by default() or by from_slots of an array with every
\* entry in [0, 7] and at least one entry below 4
C4_Origin ==
    \/ origin = "default"
    \/ origin = "slots" /\ InRange(input) /\ \E k \in 1..N : Val(input[k]) < 4

\* C4: from such a value, get_completed is false after construction; after
\* each update_status call it is true exactly if should_run is all-false,
\* and a call never turns it from true to false.
C4_CompletionAggregation ==
    [][C4_Origin =>
        /\ (pc = "new" /\ pc' = "ready") => ~get_completed(status')
        /\ UpdateStep =>
            /\ get_completed(status') <=> (\A k \in 1..N : ~should_run(status')[k])
            /\ get_completed(status) => get_completed(status')]_vars

\* from default(), completion came with a fourth failure and a further
\* call followed
C4_Witness ==
    /\ origin = "default" /\ pc = "ready" /\ nupdates >= 5
    /\ get_completed(status)
    /\ \E k \in 1..N : allErr[k]

\* C5 as stated: in every state the conversions and update_status produce,
\* the completed mark is set if and only if every slot holds a value >= 4.
C5_Original ==
    pc # "new" => (Flag(status) <=> AllTerminal(status))

\* the constructor argument for which the amended C5 is stated
C5_Origin ==
    \/ origin = "default"
    \/ origin = "slots" /\ InRange(input)
    \/ origin = "raw" /\ (Flag(input) <=> AllTerminal(input))

\* C5 (amended): in every state produced by default(), by from_slots of an
\* array with every entry in [0, 7], or by a conversion from a u32 whose bit
\* 31 agrees with its slots, followed by update_status calls, the completed
\* mark is set if and only if every slot holds a value >= 4.
C5_FlagConsistent ==
    (pc # "new" /\ C5_Origin) => (Flag(status) <=> AllTerminal(status))

\* a value without the mark got it from an update_status call
C5_Witness ==
    /\ pc = "ready" /\ C5_Origin /\ nupdates >= 1
    /\ ~Flag(start) /\ Flag(status) /\ AllTerminal(status)

\* the per-slot rule: old value v, failure reported or not
SlotRule(v, failed) ==
    IF v >= 4 THEN v ELSE IF failed THEN v + 1 ELSE 7

\* C6: after from_slots of an array with entries in [0, 7] and one
\* update_status call, each slot holds the rule's value for its value before
\* the call and its own result (after one call allErr[k] says whether the
\* call reported a failure for slot k-1).
C6_PerSlotRule ==
    (pc # "new" /\ origin = "slots" /\ InRange(input) /\ nupdates = 1) =>
        \A k \in 1..N :
            SlotValue(status, k - 1) = SlotRule(SlotValue(start, k - 1), allErr[k])

\* from_slots([0,0,1]) then update([Err,Ok,Ok]) gave [1,7,7], not completed
C6_Witness ==
    /\ pc = "ready" /\ origin = "slots" /\ nupdates = 1
    /\ input = <<U(0), U(0), U(1)>>
    /\ allErr = <<TRUE, FALSE, FALSE>>
    /\ to_slots(status) = <<U(1), U(7), U(7)>>
    /\ ~get_completed(status)

\* C7 as stated: right after from_slots of any array, in range or not,
\* get_completed is true if and only if every slot holds a value >= 4.
C7_Original ==
    (pc = "ready" /\ origin = "slots" /\ nupdates = 0) =>
        (get_completed(status) <=> AllTerminal(status))

\* C8: for an array with every entry in [0, 7], to_slots of from_slots of
\* the array is the array, and entry k-1 is stored in bits [3(k-1), 3k).
C8_ArrayRoundTrip ==
    (pc = "ready" /\ origin = "slots" /\ nupdates = 0 /\ InRange(input)) =>
        /\ to_slots(status) = input
        /\ \A k \in 1..N : SlotValue(status, k - 1) = Val(input[k])

\* the array [1,2,3] came back
C8_Witness ==
    /\ pc = "ready" /\ origin = "slots" /\ nupdates = 0
    /\ input = <<U(1), U(2), U(3)>>
    /\ to_slots(status) = <<U(1), U(2), U(3)>>

\* C9: the u32 of a value built from the u32 r is r; and for every reached
\* value s, the value built from the u32 of s has the same get_completed,
\* should_run and to_slots, and update_status takes both to the same value.
C9_RawRoundTrip ==
    /\ (pc = "ready" /\ origin = "raw" /\ nupdates = 0) => to_raw(status) = input
    /\ pc # "new" =>
        LET s2 == from_raw(to_raw(status))
        IN /\ s2 = status
           /\ get_completed(s2) = get_completed(status)
           /\ should_run(s2) = should_run(status)
           /\ to_slots(s2) = to_slots(status)
    /\ (pc = "ready" /\ nupdates = 0) =>
        \A res \in ResultInputs :
            update_status(from_raw(to_raw(status)), res) = update_status(status, res)

\* a u32 with unused bits and the mark set over unfinished slots was
\* converted, went through an update_status call, and converts back and
\* forth to itself
C9_Witness ==
    /\ pc = "ready" /\ origin = "raw" /\ nupdates >= 1
    /\ UnusedBits \subseteq input /\ Flag(input) /\ ~AllTerminal(input)
    /\ \E i \in 0..(N - 1) : SlotValue(status, i) # SlotValue(start, i)
    /\ UnusedBits \subseteq status
    /\ from_raw(to_raw(status)) = status

\* C10: should_run()[i] is true exactly if the value in bits [3i, 3i+3) is
\* below 4; a slot that starts at 5 or 6 is not runnable and update_status
\* leaves it as it is.
C10_ShouldRun ==
    pc # "new" =>
        \A k \in 1..N :
            /\ should_run(status)[k] <=> (SlotValue(status, k - 1) < 4)
            /\ SlotValue(start, k - 1) \in {5, 6} =>
                   SlotValue(status, k - 1) = SlotValue(start, k - 1)

\* a raw word with a slot at 5 and a slot at 6 went through update_status
\* calls
C10_Witness ==
    /\ pc = "ready" /\ origin = "raw" /\ nupdates >= 2
    /\ \E k, j \in 1..N :
        /\ SlotValue(status, k - 1) = 5 /\ ~should_run(status)[k]
        /\ SlotValue(status, j - 1) = 6 /\ ~should_run(status)[j]

\* C11: an update_status call with a result slice of a length other than N
\* ends in the failed assertion and leaves self.0, slots and mark, as it
\* was; nothing runs after the failure.
C11_LengthMismatch ==
    [][/\ pc # "panicked"
       /\ pc' = "panicked" => (pc = "ready" /\ status' = status)]_vars

\* the assertion failed on a value that has unfinished slots, after an
\* earlier call had changed it
C11_Witness ==
    /\ pc = "panicked" /\ nupdates >= 1 /\ status # start
    /\ \E k \in 1..N : should_run(status)[k]

\* the array with every entry reduced to its low three bits
LowBits(arr) == [k \in 1..N |-> BitAnd(arr[k], MASK3)]

\* C12 as stated: from_slots of any array yields the word that from_slots
\* yields for the array with every entry reduced to its low three bits; an
\* entry of more than three bits changes no other slot, no unused bit and
\* not the completed mark.
C12_Original ==
    (pc = "ready" /\ origin = "slots" /\ nupdates = 0) =>
        status = from_slots(LowBits(input))

\* the slot values the update rules produce
NormalValues == {0, 1, 2, 3, 4, 7}

\* the value was built by default() or by from_slots of an array with every
\* entry in {0, 1, 2, 3, 4, 7}
C13_Origin ==
    \/ origin = "default"
    \/ origin = "slots" /\ \A k \in 1..N : input[k] \in {U(v) : v \in NormalValues}

\* C13: from such a value, after any update_status calls, no slot holds 5
\* or 6: every slot value is in {0, 1, 2, 3, 4, 7}.
C13_NoFiveOrSix ==
    (pc # "new" /\ C13_Origin) =>
        \A i \in 0..(N - 1) : SlotValue(status, i) \in NormalValues

\* from an array, one slot was driven from 2 to 4 by failures and another
\* went from 3 to 7 by a success
C13_Witness ==
    /\ pc = "ready" /\ origin = "slots" /\ C13_Origin /\ nupdates >= 3
    /\ \E k, j \in 1..N :
        /\ SlotValue(start, k - 1) = 2 /\ SlotValue(status, k - 1) = 4 /\ allErr[k]
        /\ SlotValue(start, j - 1) = 3 /\ SlotValue(status, j - 1) = 7 /\ okSet[j]

\* the word update_status is to produce from w when failed[k] says whether a
\* failure is reported for slot k-1: each slot by the per-slot rule, the
\* unused bits of w, and the mark if w had it or every slot is now >= 4
ExpectedUpdate(w, failed) ==
    LET v == [k \in 1..N |-> SlotRule(SlotValue(w, k - 1), failed[k])]
    IN Pack([k \in 1..N |-> U(v[k])])
       \cup {b \in w : 3 * N <= b /\ b < BITS - 1}
       \cup (IF Flag(w) \/ \A k \in 1..N : v[k] >= 4 THEN {BITS - 1} ELSE {})

\* C14: one update_status call on any word changes each slot within its own
\* bits [3i, 3i+3) only: the word after the call is, bit for bit, the per-slot
\* rule applied to every slot, with the unused bits [3N, 31) as they were and
\* bit 31 as it was unless every slot is now >= 4, when it is set (after one
\* call allErr[k] says whether the call reported a failure for slot k-1).
C14_SlotIsolation ==
    (pc # "new" /\ nupdates = 1) => status = ExpectedUpdate(start, allErr)

\* on a raw word with unused bits set, one call added one to a slot at 3
\* beside a slot it set to 7, and the unused bits are still there
C14_Witness ==
    /\ pc = "ready" /\ origin = "raw" /\ nupdates = 1
    /\ UnusedBits \subseteq start /\ UnusedBits \subseteq status
    /\ ~Flag(start) /\ Flag(status)
    /\ \E k, j \in 1..N :
        /\ SlotValue(start, k - 1) = 3 /\ allErr[k] /\ SlotValue(status, k - 1) = 4
        /\ SlotValue(start, j - 1) < 4 /\ ~allErr[j] /\ SlotValue(status, j - 1) = 7

\* C15: a value whose completed mark is set, also one loaded from a u32
\* whose slots are not all finished, still has get_completed true after
\* every update_status call.
C15_FlagNeverCleared ==
    (pc # "new" /\ get_completed(start)) => get_completed(status)

\* a u32 with the mark over unfinished slots was loaded, a call changed a
\* slot and left another unfinished, and the mark is still set
C15_Witness ==
    /\ pc = "ready" /\ origin = "raw" /\ nupdates >= 1
    /\ get_completed(start) /\ get_completed(status)
    /\ status # start
    /\ \E k \in 1..N : should_run(status)[k]

\* C16: from any constructed value, each update_status call moves every
\* unfinished slot up (by one, or to 7) and lowers none, so after nupdates
\* calls a slot holds at least min(its first value + nupdates, 4); after 4
\* calls should_run is all-false and get_completed is true.
C16_BoundedCompletion ==
    pc # "new" =>
        /\ \A i \in 0..(N - 1) :
            SlotValue(status, i) >= Min(SlotValue(start, i) + nupdates, 4)
        /\ nupdates >= 4 =>
            /\ \A k \in 1..N : ~should_run(status)[k]
            /\ get_completed(status)

\* from all slots at 0 the fourth call, all failures, finished the job and
\* not an earlier one
C16_Witness ==
    /\ pc = "ready" /\ nupdates = 4 /\ start = ZERO
    /\ \A k \in 1..N : allErr[k] /\ SlotValue(status, k - 1) = 4
    /\ get_completed(status)

\* C17: with two writers, a writer's word is the per-slot rule applied to
\* what it loaded with its own results, and the store holds, whole, the word
\* of a writer that wrote (last write wins, nothing is merged or refused);
\* so when both loaded the same u32 the stored word carries one writer's
\* results alone.
C17_LastWriteWins ==
    /\ \A x \in Writers :
        wpc[x] \in {"updated", "done"} =>
            local[x] = ExpectedUpdate(loaded[x], [k \in 1..N |-> wres[x][k] = Err])
    /\ (\E x \in Writers : wpc[x] = "done") =>
        \E x \in Writers : wpc[x] = "done" /\ stored = to_raw(local[x])
    /\ (\A x \in Writers : wpc[x] = "done") /\ loaded["a"] = loaded["b"] =>
        \E x \in Writers :
            stored = ExpectedUpdate(loaded[x], [k \in 1..N |-> wres[x][k] = Err])

\* both writers loaded the same u32 and wrote back; one recorded a success
\* for a slot and the other a failure, and the stored word has the failure
\* count where the first writer's word has 7
C17_Witness ==
    /\ \A x \in Writers : wpc[x] = "done"
    /\ loaded["a"] = loaded["b"]
    /\ \E x \in Writers, i \in 0..(N - 1) :
        /\ wres[x][i + 1] = Ok
        /\ SlotValue(loaded[x], i) < 4
        /\ SlotValue(local[x], i) = 7
        /\ SlotValue(stored, i) = SlotValue(loaded[x], i) + 1

====
